---- MODULE Spec2Model ----
(***************************************************************************)
(* Weather Overlay & Data Resilience Layer of caelus-reimagined.           *)
(*                                                                         *)
(* The module models, from the TypeScript sources,                         *)
(*   - the page (Index.tsx): basemap, desired weather layers, reference    *)
(*     date and the 2D/3D toggle that mounts WeatherMap or Globe3D;        *)
(*   - the 2D surface (WeatherMap.tsx): the Leaflet map, its overlay refs  *)
(*     and the three React effects that keep them in step with the props;  *)
(*   - the 3D surface (Globe3D.tsx): the Cesium imagery collection and the *)
(*     asynchronous basemap/overlay rebuild;                               *)
(*   - the weather fetcher with its module-level cache, and the weather    *)
(*     panel state of the mounted surface;                                 *)
(*   - the summary resolver (aiService.ts) with its provider chain.        *)
(*                                                                         *)
(* Time is counted in milliseconds and advances in steps of TickMs.        *)
(***************************************************************************)
EXTENDS Integers, Sequences, FiniteSets, TLC

(***************************************************************************)
(* Bounds of the model.                                                    *)
(***************************************************************************)
\* reference dates are the days 0 .. MaxDay; the page starts on day MaxDay
MaxDay == 1
\* setTimeout callbacks of the 2D map-init effect that may be pending at once
MaxTimers == 2
\* asynchronous addBasemap() calls of the 3D surface that may be pending at once
MaxPending == 1

\* layer ids handed to the surfaces as the activeWeatherLayers prop:
\* "temperature" is a tile-service layer on both surfaces, "humidity" is a
\* satellite-archive layer in 2D and unknown in 3D, "modis" is a
\* satellite-archive layer in 3D and unknown in 2D.
LayerIds == {"temperature", "humidity", "modis"}
\* weather layers the layer selector offers: three of its six entries
\* (temperature, wind, clouds, precipitation, snow, pressure), which are all
\* tile-service layers and are treated alike
SelectorLayers == {"temperature", "wind", "clouds"}
\* every id a surface may be handed
SurfaceLayerIds == LayerIds \cup SelectorLayers
\* basemap ids offered by the layer selector (esri is the page's default)
Basemaps == {"esri", "openstreetmap", "modis"}
Days == 0..MaxDay
NoDate == 0 - 1
\* the clock runs for MaxTicks steps of TickMs
MaxTicks == 3
\* how far, in tenths of a degree, a second temperature reading may lie from
\* a first one
MaxDrift == 4
\* weather requests (handler invocations) the user makes in a run
MaxZooms == 3
MaxRequests == 2
\* calls of AirportService.getAirports in a run
MaxCalls == 5
\* hours in a day: setHours(getHours() + 1) carries into the next day
HoursPerDay == 24
\* the hour of day MaxDay at which the page is used: "now" is that hour, the
\* session being short against an hour
NowHour == 12
\* coordinates the user asks the weather for, in units of 0.00001 degree: two
\* points in London that agree to four decimals, and a point in Paris
Coords == {<<5150070, 0 - 12460>>, <<5150074, 0 - 12458>>, <<4885660, 235220>>}
\* the ways a request is started
Paths == {"click", "search", "locate"}

VARIABLES
  is3DView,             \* Index: which surface is mounted
  activeBasemap,        \* Index: active basemap id
  activeWeatherLayers,  \* Index: desired layer ids, in toggle order
  currentDate,          \* Index: reference date (its calendar day)
  wm,                   \* WeatherMap refs: map, mapReady, weatherLayers, activeOverlayIds
  timers,               \* WeatherMap: pending setTimeout callbacks of the init effect
  gl,                   \* Globe3D refs: viewer, imageryLayers, weatherImageryLayers
  pending3d,            \* Globe3D: addBasemap() calls suspended at an await
  hist,                 \* the last props change: its kind, the props and the attached
                        \* ids before it, whether the surface was settled then, and
                        \* whether a provider request has been rejected since
  clock,                \* Date.now(), in ms since the page was loaded
  env,                  \* import.meta.env: which provider credentials are configured
  weatherCache,         \* the module-level weatherCache of WeatherMap ("2d") and of Globe3D ("3d")
  summaryCache,         \* WeatherAIService.cache
  nextSweep,            \* when the setInterval of WeatherAIService is due next
  panel,                \* the weather panel state (useState) of the mounted surface
  tasks,                \* invocations of the request handlers suspended at an await
  requests,             \* how many weather requests the user has made
  resolved,             \* what the last completed generateWeatherSummary returned
  camera,               \* the view of the mounted surface: Leaflet zoom level (2D),
                        \* Cesium camera height in metres (3D)
  measuring,            \* WeatherMap refs measuringRef (on) and points (their number)
  toast,                \* title of the toast shown last
  zooms,                \* how many zoom commands the user has given
  isTimelinePlaying,    \* Index: whether the timeline is playing
  hour,                 \* Index: hour of the day of currentDate
  airports,             \* AirportService.airports: "null" or the loaded list
  isLoading,            \* AirportService.isLoading
  calls                 \* the calls of AirportService.getAirports made so far

overlayVars == <<is3DView, activeBasemap, activeWeatherLayers, currentDate,
                 wm, timers, gl, pending3d, hist>>
dataVars == <<clock, env, weatherCache, summaryCache, nextSweep, panel, tasks, requests, resolved>>
coordVars == <<camera, measuring, toast, zooms>>
timelineVars == <<isTimelinePlaying, hour>>
airportVars == <<airports, isLoading, calls>>
vars == <<overlayVars, dataVars, coordVars, timelineVars, airportVars>>

(***************************************************************************)
(* Helpers                                                                 *)
(***************************************************************************)
Range(s) == {s[i] : i \in 1..Len(s)}

Zero == [id \in SurfaceLayerIds |-> 0]

\* prev.filter(l => l !== layer)
RECURSIVE Filter(_, _)
Filter(s, layer) ==
  IF s = <<>> THEN <<>>
  ELSE IF Head(s) = layer THEN Filter(Tail(s), layer)
       ELSE <<Head(s)>> \o Filter(Tail(s), layer)

NoLayer == [kind |-> "none", id |-> "", source |-> "", product |-> "", date |-> NoDate]
NoTile == [source |-> "none", product |-> "", date |-> NoDate]

(***************************************************************************)
(* 2D surface: WeatherMap                                                  *)
(***************************************************************************)
owmSupported == {"temperature", "precipitation", "wind", "pressure", "clouds", "snow", "wind_gust"}

owmMap(layerId) ==
  CASE layerId = "temperature"   -> "temp_new"
    [] layerId = "precipitation" -> "precipitation_new"
    [] layerId = "wind"          -> "wind_new"
    [] layerId = "pressure"      -> "pressure_new"
    [] layerId = "clouds"        -> "clouds_new"
    [] layerId = "snow"          -> "snow_new"
    [] layerId = "wind_gust"     -> "wind_gust"
    [] OTHER                     -> ""

\* the tile source of a layer id: the OWM tile service, the GIBS archive
\* (addressed by date), or none
getTileUrl(layerId, dateStr) ==
  IF layerId \in owmSupported /\ owmMap(layerId) # ""
  THEN [source |-> "owm", product |-> owmMap(layerId), date |-> NoDate]
  ELSE CASE layerId = "humidity"   -> [source |-> "gibs", product |-> "MERRA2_RelativeHumidity_2m", date |-> dateStr]
         [] layerId = "dewpoint"   -> [source |-> "gibs", product |-> "AIRS_L3_Surface_Temperature_Day", date |-> dateStr]
         [] layerId = "feels_like" -> [source |-> "gibs", product |-> "AIRS_L3_Surface_Temperature_Day", date |-> dateStr]
         [] layerId = "visibility" -> [source |-> "gibs", product |-> "MODIS_Terra_Aerosol", date |-> dateStr]
         [] layerId = "uvi"        -> [source |-> "gibs", product |-> "OMI_L2_UV_Index", date |-> dateStr]
         [] OTHER                  -> NoTile

\* L.tileLayer(tileUrl, ...) for an overlay
TileLayer(layerId, meta) ==
  [kind |-> "overlay", id |-> layerId, source |-> meta.source,
   product |-> meta.product, date |-> meta.date]

\* the tile layers of basemaps[activeBasemap] || basemaps.openstreetmap
BasemapLayers(basemap, dateStr) ==
  CASE basemap = "esri" ->
         {[kind |-> "base", id |-> "esri", source |-> "esri", product |-> "World_Imagery", date |-> NoDate],
          [kind |-> "base", id |-> "esri", source |-> "esri", product |-> "World_Boundaries_and_Places", date |-> NoDate]}
    [] basemap = "modis" ->
         {[kind |-> "base", id |-> "modis", source |-> "gibs", product |-> "MODIS_Terra_CorrectedReflectance_TrueColor", date |-> dateStr]}
    [] basemap = "viirs" ->
         {[kind |-> "base", id |-> "viirs", source |-> "gibs", product |-> "VIIRS_SNPP_CorrectedReflectance_TrueColor", date |-> dateStr]}
    [] OTHER ->
         {[kind |-> "base", id |-> "openstreetmap", source |-> "osm", product |-> "osm", date |-> NoDate]}

\* The order of the attach and detach calls of a reconciliation pass: none
\* yet, detaches only, attaches only, detaches followed by attaches, or
\* ("mixed") a detach made after an attach.  A mixed pass stays on record
\* until the next props change.
NewPass(order) == IF order = "mixed" THEN "mixed" ELSE "none"
Attached(order) ==
  IF order = "mixed" THEN "mixed"
  ELSE IF order \in {"det", "detatt"} THEN "detatt" ELSE "att"
Detached(order) ==
  IF order \in {"att", "detatt", "mixed"} THEN "mixed" ELSE "det"

\* the refs of a WeatherMap instance before its effects have run.  att and
\* det log the overlay addTo / removeLayer calls made since the last props
\* change, order the order of the calls of the last pass.
Fresh2D ==
  [map |-> FALSE, mapReady |-> FALSE, mapLayers |-> {},
   weatherLayers |-> [id \in SurfaceLayerIds |-> NoLayer],
   activeOverlayIds |-> {}, att |-> Zero, det |-> Zero, order |-> "none"]

\* every overlay among the layers ls counts one detach
DetachAll(det, ls) ==
  [id \in SurfaceLayerIds |-> det[id] + Cardinality({l \in ls : l.kind = "overlay" /\ l.id = id})]

addOverlay(s, layerId, dateStr) ==
  IF ~s.map THEN s
  ELSE IF layerId \in s.activeOverlayIds THEN s
  ELSE LET create == s.weatherLayers[layerId] = NoLayer
           tileMeta == getTileUrl(layerId, dateStr)
       IN IF create /\ tileMeta = NoTile THEN s
          ELSE LET wl == IF create
                         THEN [s.weatherLayers EXCEPT ![layerId] = TileLayer(layerId, tileMeta)]
                         ELSE s.weatherLayers
                   layer == wl[layerId]
               IN IF layer \notin s.mapLayers
                  THEN [s EXCEPT !.weatherLayers = wl,
                                 !.mapLayers = @ \cup {layer},
                                 !.activeOverlayIds = @ \cup {layerId},
                                 !.att[layerId] = @ + 1,
                                 !.order = Attached(@)]
                  ELSE [s EXCEPT !.weatherLayers = wl]

removeOverlay(s, layerId) ==
  IF ~s.map THEN s
  ELSE LET layer == s.weatherLayers[layerId]
           s1 == IF layer # NoLayer /\ layer \in s.mapLayers
                 THEN [s EXCEPT !.mapLayers = @ \ {layer}, !.det[layerId] = @ + 1,
                                !.order = Detached(@)]
                 ELSE s
       IN [s1 EXCEPT !.activeOverlayIds = @ \ {layerId}]

\* ids.forEach(id => removeOverlay(id))
RECURSIVE RemoveEach(_, _)
RemoveEach(s, ids) ==
  IF ids = {} THEN s
  ELSE LET id == CHOOSE x \in ids : TRUE
       IN RemoveEach(removeOverlay(s, id), ids \ {id})

\* ids.forEach(id => { if (!activeOverlayIds.current.has(id)) addOverlay(id) })
RECURSIVE AddEach(_, _, _)
AddEach(s, ids, dateStr) ==
  IF ids = {} THEN s
  ELSE LET id == CHOOSE x \in ids : TRUE
           s1 == IF id \notin s.activeOverlayIds THEN addOverlay(s, id, dateStr) ELSE s
       IN AddEach(s1, ids \ {id}, dateStr)

\* effect [activeWeatherLayers, addOverlay, removeOverlay]
SyncEffect(s, layers, dateStr) ==
  IF ~s.map \/ ~s.mapReady THEN s
  ELSE LET desired == Range(layers)
           s0 == [s EXCEPT !.order = NewPass(@)]
           s1 == RemoveEach(s0, {id \in s.activeOverlayIds : id \notin desired})
       IN AddEach(s1, desired, dateStr)

\* cleanup of the map-init effect: map.remove() takes every layer off the map
InitCleanup(s) ==
  IF s.map
  THEN [s EXCEPT !.det = DetachAll(@, s.mapLayers), !.mapLayers = {},
                 !.map = FALSE, !.mapReady = FALSE,
                 !.order = IF s.mapLayers # {} THEN Detached(NewPass(@)) ELSE NewPass(@)]
  ELSE s

\* body of the map-init effect up to the setTimeout: a new map with the basemap
InitEffect(s, basemap, dateStr) ==
  IF s.map THEN s
  ELSE [s EXCEPT !.map = TRUE, !.mapLayers = BasemapLayers(basemap, dateStr),
                 !.order = Attached(NewPass(@))]

\* the closure the setTimeout callback of the map-init effect captures
Timer(layers, dateStr) == [layers |-> layers, dateStr |-> dateStr]

\* the setTimeout callback: mapReady, then the initial overlay load
TimerBody(s, t) ==
  AddEach([s EXCEPT !.mapReady = TRUE, !.order = NewPass(@)], Range(t.layers), t.dateStr)

\* one step of the forEach of the basemap/date effect over Object.keys(weatherLayers)
RecreateGibs(s, layerId, dateStr) ==
  LET meta == getTileUrl(layerId, dateStr)
      old == s.weatherLayers[layerId]
  IN IF meta # NoTile /\ meta.source = "gibs" /\ old # NoLayer
     THEN LET s1 == IF s.map /\ old \in s.mapLayers
                    THEN [s EXCEPT !.mapLayers = @ \ {old}, !.det[layerId] = @ + 1,
                                   !.order = Detached(@)]
                    ELSE s
              s2 == [s1 EXCEPT !.weatherLayers[layerId] = NoLayer,
                               !.activeOverlayIds = @ \ {layerId}]
          IN addOverlay(s2, layerId, dateStr)
     ELSE s

RECURSIVE RecreateEach(_, _, _)
RecreateEach(s, ids, dateStr) ==
  IF ids = {} THEN s
  ELSE LET id == CHOOSE x \in ids : TRUE
       IN RecreateEach(RecreateGibs(s, id, dateStr), ids \ {id}, dateStr)

\* effect [activeBasemap, dateStr]: clear the tile layers, add the basemap,
\* recreate the GIBS overlays
BasemapEffect(s, basemap, dateStr) ==
  IF ~s.map THEN s
  ELSE LET s1 == [s EXCEPT !.det = DetachAll(@, s.mapLayers),
                           !.mapLayers = BasemapLayers(basemap, dateStr),
                           !.order = Attached(IF s.mapLayers # {}
                                              THEN Detached(NewPass(@)) ELSE NewPass(@))]
       IN RecreateEach(s1, {id \in SurfaceLayerIds : s.weatherLayers[id] # NoLayer}, dateStr)

\* the effects of the first render of a WeatherMap, in declaration order
Mount2D(basemap, layers, dateStr) ==
  BasemapEffect(InitEffect(SyncEffect(Fresh2D, layers, dateStr), basemap, dateStr),
                basemap, dateStr)

\* the effects of a re-render: the cleanups of the effects whose dependencies
\* changed, then their bodies in declaration order
Update2D(s, basemap, layers, dateStr, chLayers, chDate, chBasemap) ==
  LET any == chLayers \/ chDate \/ chBasemap
      s0 == IF any THEN InitCleanup(s) ELSE s
      s1 == IF chLayers \/ chDate THEN SyncEffect(s0, layers, dateStr) ELSE s0
      s2 == IF any THEN InitEffect(s1, basemap, dateStr) ELSE s1
  IN IF chBasemap \/ chDate THEN BasemapEffect(s2, basemap, dateStr) ELSE s2

(***************************************************************************)
(* 3D surface: Globe3D                                                     *)
(***************************************************************************)
\* the tile source of a layer id on the globe, or none
getWeatherTileUrl(layerId, dateStr) ==
  CASE layerId \in owmSupported -> [source |-> "owm", product |-> owmMap(layerId), date |-> NoDate]
    [] layerId = "modis" -> [source |-> "gibs", product |-> "MODIS_Terra_CorrectedReflectance_TrueColor", date |-> dateStr]
    [] layerId = "viirs" -> [source |-> "gibs", product |-> "VIIRS_SNPP_CorrectedReflectance_TrueColor", date |-> dateStr]
    [] OTHER -> NoTile

\* baseProvider and labelProvider of addBasemap, in the order they are added
BasemapProviders(basemap, dateStr) ==
  CASE basemap = "esri" ->
         <<[kind |-> "base", id |-> "esri", source |-> "esri", product |-> "World_Imagery", date |-> NoDate],
           [kind |-> "base", id |-> "esri", source |-> "esri", product |-> "World_Boundaries_and_Places", date |-> NoDate]>>
    [] basemap = "modis" ->
         <<[kind |-> "base", id |-> "modis", source |-> "gibs", product |-> "MODIS_Terra_CorrectedReflectance_TrueColor", date |-> dateStr]>>
    [] basemap = "viirs" ->
         <<[kind |-> "base", id |-> "viirs", source |-> "gibs", product |-> "VIIRS_SNPP_CorrectedReflectance_TrueColor", date |-> dateStr]>>
    [] OTHER ->
         <<[kind |-> "base", id |-> "openstreetmap", source |-> "osm", product |-> "osm", date |-> NoDate]>>

\* the imagery a new Cesium.Viewer starts with
DefaultImagery ==
  [kind |-> "base", id |-> "default", source |-> "ion", product |-> "default", date |-> NoDate]

Fresh3D ==
  [viewer |-> FALSE, imageryLayers |-> <<>>,
   weatherImageryLayers |-> [id \in SurfaceLayerIds |-> NoLayer],
   att |-> Zero, det |-> Zero, order |-> "none"]

\* the viewer-creating effect of Globe3D
ViewerEffect(g) ==
  IF g.viewer THEN g
  ELSE [g EXCEPT !.viewer = TRUE, !.imageryLayers = <<DefaultImagery>>,
                 !.order = Attached(NewPass(@))]

\* what one run of the basemap/weather-layer effect captures for addBasemap
Pass(basemap, layers, dateStr) ==
  [basemap |-> basemap, layers |-> layers, dateStr |-> dateStr]

\* the "re-add weather layers on top" loop of addBasemap
RECURSIVE AddWeatherLayers(_, _, _)
AddWeatherLayers(g, layers, dateStr) ==
  IF layers = <<>> THEN g
  ELSE LET layerId == Head(layers)
           tileUrl == getWeatherTileUrl(layerId, dateStr)
           g1 == IF tileUrl # NoTile
                 THEN [g EXCEPT !.imageryLayers = Append(@, TileLayer(layerId, tileUrl)),
                                !.weatherImageryLayers[layerId] = TileLayer(layerId, tileUrl),
                                !.att[layerId] = @ + 1,
                                !.order = Attached(@)]
                 ELSE g
       IN AddWeatherLayers(g1, Tail(layers), dateStr)

\* addBasemap from the point where its providers are known: ok is FALSE when
\* a provider request was rejected, which the catch block absorbs
addBasemap(g, pass, ok) ==
  IF ~ok \/ ~g.viewer THEN g
  ELSE AddWeatherLayers(
         [g EXCEPT !.imageryLayers = @ \o BasemapProviders(pass.basemap, pass.dateStr),
                   !.order = Attached(@)],
         pass.layers, pass.dateStr)

\* only the esri providers are awaited; the other basemaps are built in place
Awaits(basemap) == basemap = "esri"

\* viewer.imageryLayers.removeAll()
RemoveAll(g) ==
  [g EXCEPT !.det = DetachAll(@, Range(g.imageryLayers)), !.imageryLayers = <<>>,
            !.order = IF g.imageryLayers # <<>> THEN Detached(@) ELSE @]

\* a layer effect that takes the old imagery away only after the new imagery
\* has been added on top of it
LayerEffect3DLate(g, basemap, layers, dateStr) ==
  IF ~g.viewer THEN g
  ELSE LET g0 == [g EXCEPT !.order = NewPass(@)]
           old == Len(g0.imageryLayers)
           g1 == addBasemap(g0, Pass(basemap, layers, dateStr), TRUE)
       IN IF Awaits(basemap) THEN RemoveAll(g0)
          ELSE [g1 EXCEPT !.det = DetachAll(@, Range(g0.imageryLayers)),
                          !.imageryLayers = SubSeq(@, old + 1, Len(@)),
                          !.order = IF old > 0 THEN Detached(@) ELSE @]

\* effect [activeBasemap, activeWeatherLayers, currentDate] up to the first await
LayerEffect3D(g, basemap, layers, dateStr) ==
  IF ~g.viewer THEN g
  ELSE LET g0 == [g EXCEPT !.order = NewPass(@)]
       IN IF Awaits(basemap) THEN RemoveAll(g0)
          ELSE addBasemap(RemoveAll(g0), Pass(basemap, layers, dateStr), TRUE)

Mount3D(basemap, layers, dateStr) ==
  LayerEffect3D(ViewerEffect(Fresh3D), basemap, layers, dateStr)

RemoveAt(s, i) == SubSeq(s, 1, i - 1) \o SubSeq(s, i + 1, Len(s))

(***************************************************************************)
(* Weather data fetcher: fetchWeather of WeatherMap and of Globe3D         *)
(***************************************************************************)
CACHE_TTL_MS == 1000 * 60 * 5
\* the step of the clock
TickMs == CACHE_TTL_MS

\* x.toFixed(4) of a coordinate given in units of 0.00001 degree, in units
\* of 0.0001 degree
toFixed4(x) == IF x >= 0 THEN (x + 5) \div 10 ELSE 0 - ((0 - x + 5) \div 10)

\* `${lat.toFixed(4)},${lon.toFixed(4)}`
CacheKeyOf(c) == <<toFixed4(c[1]), toFixed4(c[2])>>

\* what the weather provider answers for a coordinate
ProviderData(c) ==
  IF c[1] > 5000000
  THEN [name |-> "London", temp |-> 180, conditions |-> "clear sky", humidity |-> 50,
        windSpeed |-> 40, pressure |-> 1015, forecast |-> <<"few clouds">>]
  ELSE [name |-> "Paris", temp |-> 262, conditions |-> "light rain", humidity |-> 80,
        windSpeed |-> 90, pressure |-> 995, forecast |-> <<>>]

\* const payload = { current, forecast, airQuality }
Payload(c) == [at |-> c, current |-> ProviderData(c)]
NoPayload ==
  [at |-> <<0, 0>>,
   current |-> [name |-> "", temp |-> 0, conditions |-> "", humidity |-> 0,
                windSpeed |-> 0, pressure |-> 0, forecast |-> <<>>]]

\* Map.set and Map.get on a cache held as a function from keys to entries
Put(cache, key, entry) ==
  [k \in (DOMAIN cache) \cup {key} |-> IF k = key THEN entry ELSE cache[k]]
EmptyCache == [k \in {} |-> 0]

\* cached && now - cached.timestamp < CACHE_TTL_MS
WeatherHit(cache, key, now) ==
  key \in DOMAIN cache /\ now - cache[key].timestamp < CACHE_TTL_MS

\* the three responses of a fetch: each is "ok", "msg" (non-success status,
\* body with a message) or "nomsg" (non-success status, body without one);
\* net is FALSE when a request was rejected by the network
FetchOutcomes ==
  {[net |-> FALSE, cur |-> "ok", fore |-> "ok", air |-> "ok"]} \cup
  [net : {TRUE}, cur : {"ok", "msg", "nomsg"}, fore : {"ok", "msg", "nomsg"},
   air : {"ok", "msg", "nomsg"}]

NoError == ""

\* a fetchWeather that tests the three responses in the opposite order
FetchErrorAirFirst(o) ==
  IF ~o.net THEN "Failed to fetch"
  ELSE IF o.air = "msg" THEN "provider message (air)"
  ELSE IF o.air = "nomsg" THEN "OpenWeather AQI error 401"
  ELSE IF o.fore = "msg" THEN "provider message (forecast)"
  ELSE IF o.fore = "nomsg" THEN "OpenWeather forecast error 401"
  ELSE IF o.cur = "msg" THEN "provider message (current)"
  ELSE IF o.cur = "nomsg" THEN "OpenWeather current error 401"
  ELSE NoError

\* the message of the error fetchWeather throws for an outcome, NoError if none
FetchError(o) ==
  IF ~o.net THEN "Failed to fetch"
  ELSE IF o.cur = "msg" THEN "provider message (current)"
  ELSE IF o.cur = "nomsg" THEN "OpenWeather current error 401"
  ELSE IF o.fore = "msg" THEN "provider message (forecast)"
  ELSE IF o.fore = "nomsg" THEN "OpenWeather forecast error 401"
  ELSE IF o.air = "msg" THEN "provider message (air)"
  ELSE IF o.air = "nomsg" THEN "OpenWeather AQI error 401"
  ELSE NoError

\* a fetchWeather that stores what it has as soon as the current conditions
\* have arrived
FetchResultPartial(cache, key, now, c, o) ==
  IF o.net /\ o.cur = "ok"
  THEN [payload |-> Payload(c), error |-> FetchError(o),
        cache |-> Put(cache, key, [timestamp |-> now, payload |-> Payload(c)])]
  ELSE [payload |-> NoPayload, error |-> FetchError(o), cache |-> cache]

\* the try block of fetchWeather after the responses have arrived: the
\* payload it returns (NoPayload for null), the error it reports and the cache
FetchResult(cache, key, now, c, o) ==
  IF FetchError(o) = NoError
  THEN [payload |-> Payload(c), error |-> NoError,
        cache |-> Put(cache, key, [timestamp |-> now, payload |-> Payload(c)])]
  ELSE [payload |-> NoPayload, error |-> FetchError(o), cache |-> cache]

(***************************************************************************)
(* Summary resolver: aiService.ts                                          *)
(***************************************************************************)
CACHE_TTL == 10 * 60 * 1000
SweepMs == 15 * 60 * 1000

\* a text is a sequence of pieces; " " is white space
NullText == <<"(null)">>
RECURSIVE TrimLeft(_)
TrimLeft(t) == IF t # <<>> /\ Head(t) = " " THEN TrimLeft(Tail(t)) ELSE t
RECURSIVE TrimRight(_)
TrimRight(t) ==
  IF t # <<>> /\ t[Len(t)] = " " THEN TrimRight(SubSeq(t, 1, Len(t) - 1)) ELSE t
\* String.prototype.trim
Trim(t) == TrimRight(TrimLeft(t))

\* the WeatherSummaryInput the surfaces build from a payload
SummaryInput(payload) ==
  [location |-> IF payload.current.name # "" THEN payload.current.name ELSE "Unknown location",
   temp |-> payload.current.temp,
   conditions |-> IF payload.current.conditions # "" THEN payload.current.conditions ELSE "unknown",
   windSpeed |-> payload.current.windSpeed,
   humidity |-> payload.current.humidity,
   pressure |-> payload.current.pressure,
   forecast |-> payload.current.forecast]

\* `${location}-${temp}-${conditions}`
SummaryKey(input) == <<input.location, input.temp, input.conditions>>

\* FallbackProvider.generateSummary; temperatures and wind speeds are in
\* tenths of a unit
FallbackSummary(input) ==
  <<"The current weather in ", input.location, " shows ", ToString(input.temp),
    " with ", input.conditions, ". ">>
  \o <<IF input.temp > 250 THEN "This warm temperature "
       ELSE IF input.temp < 100 THEN "These cool conditions "
       ELSE "This moderate temperature ">>
  \o <<IF input.humidity > 70 THEN "combined with high humidity"
       ELSE IF input.humidity < 40 THEN "with low humidity"
       ELSE "with moderate humidity">>
  \o <<IF input.windSpeed > 80 THEN "Strong winds"
       ELSE IF input.windSpeed > 30 THEN "Light winds"
       ELSE "Calm wind conditions">>
  \o (IF input.pressure > 1020 THEN <<"High atmospheric pressure">>
      ELSE IF input.pressure < 1000 THEN <<"Low pressure">>
      ELSE IF Len(input.forecast) > 0
           THEN <<"Looking ahead, expect ", input.forecast[1]>>
           ELSE <<>>)

\* a lookup that takes the summary cache to have the TTL of the weather cache
SummaryHitShort(cache, input, now) ==
  SummaryKey(input) \in DOMAIN cache
    /\ now - cache[SummaryKey(input)].timestamp < CACHE_TTL_MS

\* cached && Date.now() - cached.timestamp < this.CACHE_TTL
SummaryHit(cache, input, now) ==
  SummaryKey(input) \in DOMAIN cache /\ now - cache[SummaryKey(input)].timestamp < CACHE_TTL

\* the loop of generateWeatherSummary accepts a provider's summary
Accept(cache, input, now, summary, by) ==
  [done |-> TRUE, stage |-> "done", text |-> summary, by |-> by,
   cache |-> Put(cache, SummaryKey(input), [summary |-> summary, timestamp |-> now])]

Suspend(cache, stage) ==
  [done |-> FALSE, stage |-> stage, text |-> NullText, by |-> "", cache |-> cache]

\* a loop that sends the Hugging Face request whether or not a token is set
FromHuggingFaceAlways(cache, input, now, e) == Suspend(cache, "hf")

\* the loop from the Hugging Face provider on: without a token it throws at
\* once and the fallback provider answers
FromHuggingFace(cache, input, now, e) ==
  IF e.hfToken THEN Suspend(cache, "hf")
  ELSE Accept(cache, input, now, FallbackSummary(input), "fallback")

\* generateWeatherSummary up to its first suspension
ResolveStart(cache, input, now, e) ==
  IF SummaryHit(cache, input, now)
  THEN [done |-> TRUE, stage |-> "done", text |-> cache[SummaryKey(input)].summary,
        by |-> "cache", cache |-> cache]
  ELSE IF e.openaiKey THEN Suspend(cache, "openai")
  ELSE FromHuggingFace(cache, input, now, e)

\* answers of OpenAI: the request is rejected, or a completion whose content
\* is a text, white space or empty
OpenAIOutcomes ==
  {[ok |-> FALSE, content |-> <<>>]} \cup
  [ok : {TRUE}, content : {<<"ai text">>, <<" ">>, <<>>}]

\* answers of Hugging Face: rejected or non-success status (ok FALSE), or a
\* body whose generated_text is a text, padded, white space or missing
HFOutcomes ==
  {[ok |-> FALSE, text |-> <<>>]} \cup
  [ok : {TRUE}, text : {<<"ai text">>, <<" ", "ai text", " ">>, <<" ">>, <<>>}]

\* a resolve call that turns to the fallback provider as soon as OpenAI fails
ResolveOpenAISkip(cache, input, now, e, o) ==
  IF o.ok
  THEN Accept(cache, input, now,
              IF o.content # <<>> THEN o.content ELSE <<"Weather summary unavailable.">>,
              "openai")
  ELSE Accept(cache, input, now, FallbackSummary(input), "fallback")

\* the OpenAI request of a resolve call completes
ResolveOpenAI(cache, input, now, e, o) ==
  IF o.ok
  THEN Accept(cache, input, now,
              IF o.content # <<>> THEN o.content ELSE <<"Weather summary unavailable.">>,
              "openai")
  ELSE FromHuggingFace(cache, input, now, e)

\* the Hugging Face request of a resolve call completes
ResolveHF(cache, input, now, e, o) ==
  IF o.ok /\ o.text # <<>>
  THEN Accept(cache, input, now, Trim(o.text), "hf")
  ELSE Accept(cache, input, now, FallbackSummary(input), "fallback")

\* cleanCache
cleanCache(cache, now) ==
  [k \in {x \in DOMAIN cache : ~(now - cache[x].timestamp > CACHE_TTL)} |-> cache[k]]

(***************************************************************************)
(* Weather panel: the request handlers of WeatherMap and Globe3D           *)
(***************************************************************************)
\* useState initial values of a surface
FreshPanel ==
  [weatherPanelOpen |-> FALSE, weatherPayload |-> NoPayload, weatherLoading |-> FALSE,
   weatherError |-> NoError, weatherSummary |-> NullText, summaryLoading |-> FALSE]

\* the handler a request runs: the three handlers of WeatherMap differ, the
\* click, search and locate handlers of Globe3D run the same statements
Kind(is3D, path) == IF is3D THEN "globe" ELSE path

\* setWeatherSummary(null) before the fetch
ResetsSummary(kind) == kind \in {"click", "globe"}
\* the message a handler sets when fetchWeather returned null, NoError if none
NullMessage(kind) ==
  IF kind = "click" THEN "Unable to load weather. See console for details."
  ELSE IF kind = "locate" THEN "Unable to load weather for your location."
  ELSE NoError
\* setWeatherError(null) after setWeatherPayload(payload)
ClearsError(kind) == kind # "search"
\* the handler asks for a summary of the payload
Summarises(kind) == kind # "locate"
\* the handler brackets the summary with setSummaryLoading
UsesSummaryLoading(kind) == kind \in {"click", "globe"}

\* the state updates of a handler before it calls fetchWeather
HandlerStart(p, kind) ==
  [p EXCEPT !.weatherPayload = NoPayload, !.weatherError = NoError,
            !.weatherSummary = IF ResetsSummary(kind) THEN NullText ELSE @,
            !.weatherLoading = TRUE, !.weatherPanelOpen = TRUE]

\* the state updates of a handler once its summary has arrived
SummaryDone(p, kind, text) ==
  [p EXCEPT !.weatherSummary = text,
            !.summaryLoading = IF UsesSummaryLoading(kind) THEN FALSE ELSE @]

\* a state update of an unmounted component is dropped
Show(t, p) == IF t.live THEN p ELSE panel

\* the suspended invocations once invocation i has returned (i = 0: it never
\* suspended), and once it has suspended (again) as t
Returned(ts, i) == IF i = 0 THEN ts ELSE RemoveAt(ts, i)
Suspended(ts, i, t) == IF i = 0 THEN Append(ts, t) ELSE [ts EXCEPT ![i] = t]

\* a handler after generateWeatherSummary has run up to r
AfterResolve(ts, i, t, p, r) ==
  /\ summaryCache' = r.cache
  /\ IF r.done
     THEN /\ panel' = Show(t, SummaryDone(p, t.kind, r.text))
          /\ tasks' = Returned(ts, i)
          /\ resolved' = [text |-> r.text, by |-> r.by]
     ELSE /\ panel' = Show(t, p)
          /\ tasks' = Suspended(ts, i, [t EXCEPT !.stage = r.stage])
          /\ UNCHANGED resolved

\* the view a surface opens with: L.map(..., {center: [20, 0], zoom: 3}) and
\* the whole globe, taken to be the height of the world view of flyTo
HomeCamera == [zoom |-> 3, height |-> 20000000]

\* measuringRef and points of a freshly mounted WeatherMap
NoMeasurement == [on |-> FALSE, points |-> 0]

\* flyTo([lat, lng], 13) of the 2D surface and camera.flyTo to 1000 km of the
\* 3D surface, in searchAndShowWeather and zoomToUserLocation
FlyToPlace(cam, is3D) ==
  IF is3D THEN [cam EXCEPT !.height = 1000000] ELSE [cam EXCEPT !.zoom = 13]

\* flyTo(lat, lng, zoom) of either surface
flyTo(cam, is3D, zoom) ==
  IF is3D
  THEN [cam EXCEPT !.height = IF zoom <= 3 THEN 20000000
                              ELSE IF zoom <= 5 THEN 10000000
                              ELSE (15 - zoom) * 1000000]
  ELSE [cam EXCEPT !.zoom = zoom]

\* map.zoomIn() within maxZoom, camera.zoomIn(height * 0.5)
zoomIn(cam, is3D) ==
  IF is3D THEN [cam EXCEPT !.height = @ - @ \div 2]
  ELSE [cam EXCEPT !.zoom = IF @ + 1 > 18 THEN 18 ELSE @ + 1]

\* map.zoomOut() within minZoom, camera.zoomOut(height * 0.5)
zoomOut(cam, is3D) ==
  IF is3D THEN [cam EXCEPT !.height = @ + @ \div 2]
  ELSE [cam EXCEPT !.zoom = IF @ - 1 < 2 THEN 2 ELSE @ - 1]

\* a handler after fetchWeather has returned payload (NoPayload for null)
AfterFetch(ts, i, t, p, payload) ==
  LET p1 == [p EXCEPT !.weatherLoading = FALSE]
      p2 == [p1 EXCEPT !.weatherPayload = payload,
                       !.weatherError = IF ClearsError(t.kind) THEN NoError ELSE @]
      p3 == [p2 EXCEPT !.summaryLoading = IF UsesSummaryLoading(t.kind) THEN TRUE ELSE @]
  IN IF payload = NoPayload
     THEN /\ panel' = Show(t, IF NullMessage(t.kind) # NoError
                              THEN [p1 EXCEPT !.weatherError = NullMessage(t.kind),
                                              !.weatherPayload = NoPayload]
                              ELSE p1)
          /\ tasks' = Returned(ts, i)
          /\ UNCHANGED <<summaryCache, resolved>>
     ELSE IF ~Summarises(t.kind)
     THEN /\ panel' = Show(t, p2)
          /\ tasks' = Returned(ts, i)
          /\ UNCHANGED <<summaryCache, resolved>>
     ELSE AfterResolve(ts, i, [t EXCEPT !.payload = payload], p3,
                       ResolveStart(summaryCache, SummaryInput(payload), clock, env))

CacheOf(is3D) == IF is3D THEN "3d" ELSE "2d"

\* the user asks for the weather at c: a click on the surface, a search result
\* (Index.handleResultSelect) or the locate button (Index.handleLocationClick)
StartRequest(path, c) ==
  /\ UNCHANGED <<timelineVars, airportVars>>
  /\ requests < MaxRequests
  /\ requests' = requests + 1
  /\ IF is3DView THEN gl.viewer ELSE wm.map
  /\ (path = "click" /\ ~is3DView) => ~measuring.on
  /\ camera' = IF path = "click" THEN camera ELSE FlyToPlace(camera, is3DView)
  /\ UNCHANGED <<measuring, toast, zooms>>
  /\ LET kind == Kind(is3DView, path)
         key == CacheKeyOf(c)
         cache == weatherCache[CacheOf(is3DView)]
         older == [i \in 1..Len(tasks) |-> [tasks[i] EXCEPT !.superseded = TRUE]]
         t == [cache |-> CacheOf(is3DView), kind |-> kind, coord |-> c, now |-> clock,
               stage |-> "fetch", payload |-> NoPayload, live |-> TRUE,
               superseded |-> FALSE]
         p == HandlerStart(panel, kind)
     IN IF WeatherHit(cache, key, clock)
        THEN AfterFetch(older, 0, t, p, cache[key].payload)
        ELSE /\ panel' = p
             /\ tasks' = Append(older, t)
             /\ UNCHANGED <<summaryCache, resolved>>
  /\ UNCHANGED <<clock, env, weatherCache, nextSweep, overlayVars>>

\* the three requests of a suspended fetchWeather have completed with outcome o
FetchDone(i, o) ==
  /\ UNCHANGED <<timelineVars, airportVars>>
  /\ i \in 1..Len(tasks)
  /\ tasks[i].stage = "fetch"
  /\ LET t == tasks[i]
         key == CacheKeyOf(t.coord)
         r == FetchResult(weatherCache[t.cache], key, t.now, t.coord, o)
         p == [panel EXCEPT !.weatherError = IF r.error # NoError THEN r.error ELSE @,
                            !.weatherLoading = FALSE]
     IN /\ weatherCache' = [weatherCache EXCEPT ![t.cache] = r.cache]
        /\ AfterFetch(tasks, i, t, p, r.payload)
  /\ UNCHANGED <<clock, env, nextSweep, requests, overlayVars, coordVars>>

\* the OpenAI request of a suspended generateWeatherSummary has completed
OpenAIDone(i, o) ==
  /\ UNCHANGED <<timelineVars, airportVars>>
  /\ i \in 1..Len(tasks)
  /\ tasks[i].stage = "openai"
  /\ AfterResolve(tasks, i, tasks[i], panel,
                  ResolveOpenAI(summaryCache, SummaryInput(tasks[i].payload), clock, env, o))
  /\ UNCHANGED <<clock, env, weatherCache, nextSweep, requests, overlayVars, coordVars>>

\* the Hugging Face request of a suspended generateWeatherSummary has completed
HFDone(i, o) ==
  /\ UNCHANGED <<timelineVars, airportVars>>
  /\ i \in 1..Len(tasks)
  /\ tasks[i].stage = "hf"
  /\ AfterResolve(tasks, i, tasks[i], panel,
                  ResolveHF(summaryCache, SummaryInput(tasks[i].payload), clock, env, o))
  /\ UNCHANGED <<clock, env, weatherCache, nextSweep, requests, overlayVars, coordVars>>

\* the setInterval callback of WeatherAIService runs
Sweep ==
  /\ UNCHANGED <<timelineVars, airportVars>>
  /\ clock >= nextSweep
  /\ summaryCache' = cleanCache(summaryCache, clock)
  /\ nextSweep' = nextSweep + SweepMs
  /\ UNCHANGED <<clock, env, weatherCache, panel, tasks, requests, resolved, overlayVars,
                 coordVars>>

\* time passes
Tick ==
  /\ UNCHANGED <<timelineVars, airportVars>>
  /\ clock < MaxTicks * TickMs
  /\ clock' = clock + TickMs
  /\ UNCHANGED <<env, weatherCache, summaryCache, nextSweep, panel, tasks, requests,
                 resolved, overlayVars, coordVars>>

(***************************************************************************)
(* The page: Index                                                         *)
(***************************************************************************)
\* the overlay ids with imagery on the mounted surface
AttachedIds ==
  IF is3DView
  THEN {l.id : l \in {x \in Range(gl.imageryLayers) : x.kind = "overlay"}}
  ELSE {l.id : l \in {x \in wm.mapLayers : x.kind = "overlay"}}

History(change) ==
  [change |-> change, prevLayers |-> Range(activeWeatherLayers),
   prevAttached |-> AttachedIds, prevDate |-> currentDate,
   prevBasemap |-> activeBasemap,
   settled |-> (timers = <<>> /\ pending3d = <<>>), failed |-> FALSE]

\* a render of the mounted surface with new props, and the effects it runs
Render(basemap, layers, dateStr, change) ==
  /\ activeBasemap' = basemap
  /\ activeWeatherLayers' = layers
  /\ currentDate' = dateStr
  /\ hist' = History(change)
  /\ UNCHANGED <<is3DView, dataVars, measuring, toast, zooms, airportVars>>
  /\ IF is3DView
     THEN /\ Awaits(basemap) => Len(pending3d) < MaxPending
          /\ camera' = camera
          /\ gl' = LayerEffect3D([gl EXCEPT !.att = Zero, !.det = Zero, !.order = "none"],
                                 basemap, layers, dateStr)
          /\ pending3d' = IF Awaits(basemap)
                          THEN Append(pending3d, Pass(basemap, layers, dateStr))
                          ELSE pending3d
          /\ UNCHANGED <<wm, timers>>
     ELSE LET chLayers == layers # activeWeatherLayers
              chDate == dateStr # currentDate
              chBasemap == basemap # activeBasemap
              any == chLayers \/ chDate \/ chBasemap
          IN /\ any => Len(timers) < MaxTimers
             /\ wm' = Update2D([wm EXCEPT !.att = Zero, !.det = Zero, !.order = "none"],
                               basemap, layers, dateStr, chLayers, chDate, chBasemap)
             /\ timers' = IF any THEN Append(timers, Timer(layers, dateStr)) ELSE timers
             /\ camera' = IF any THEN HomeCamera ELSE camera
             /\ UNCHANGED <<gl, pending3d>>

\* Index.handleWeatherLayerToggle
handleWeatherLayerToggle(layer) ==
  /\ UNCHANGED timelineVars
  /\ Render(activeBasemap,
            IF layer \in Range(activeWeatherLayers)
            THEN Filter(activeWeatherLayers, layer)
            ELSE Append(activeWeatherLayers, layer),
            currentDate, "layers")

\* the updater handleWeatherLayerToggle hands to setActiveWeatherLayers
Toggled(prev, layer) ==
  IF layer \in Range(prev) THEN Filter(prev, layer) ELSE Append(prev, layer)

\* a selector that toggles the clicked layer and nothing else
SelectorResultKeep(layers, layerId) == Toggled(layers, layerId)

\* activeWeatherLayers.forEach(l => { if (l !== layerId) onWeatherLayerToggle(l) }):
\* the updaters queue up and run in order on the state, list being the prop
RECURSIVE ToggleOthers(_, _, _)
ToggleOthers(prev, list, layerId) ==
  IF list = <<>> THEN prev
  ELSE ToggleOthers(IF Head(list) # layerId THEN Toggled(prev, Head(list)) ELSE prev,
                    Tail(list), layerId)

\* the state LayerSelector.handleWeatherClick leaves: its calls of
\* onWeatherLayerToggle are batched into one update of activeWeatherLayers
SelectorResult(layers, layerId) ==
  IF layerId \in Range(layers)
  THEN Toggled(layers, layerId)
  ELSE Toggled(ToggleOthers(layers, layers, layerId), layerId)

\* LayerSelector.handleWeatherClick
handleWeatherClick(layerId) ==
  /\ UNCHANGED timelineVars
  /\ Render(activeBasemap, SelectorResult(activeWeatherLayers, layerId), currentDate, "layers")

\* LayerSelector.handleBasemapSwitch -> setActiveBasemap
onBasemapChange(newBasemap) ==
  /\ newBasemap # activeBasemap
  /\ UNCHANGED timelineVars
  /\ Render(newBasemap, activeWeatherLayers, currentDate, "basemap")

\* Timeline.handleSliderChange / handleReset -> setCurrentDate(new Date(...)):
\* the slider offers the time of day of "now" on each of its days
onDateChange(day) ==
  /\ hour' = NowHour
  /\ UNCHANGED isTimelinePlaying
  /\ Render(activeBasemap, activeWeatherLayers, day, "date")

\* Timeline onPlayToggle: setIsTimelinePlaying(!isTimelinePlaying)
onPlayToggle ==
  /\ isTimelinePlaying' = ~isTimelinePlaying
  /\ UNCHANGED <<hour, overlayVars, dataVars, coordVars, airportVars>>

\* a comparison that notices only a date on a later day than today
AfterNowLate(d) == d.day > MaxDay

\* newDate > new Date()
AfterNow(d) == d.day > MaxDay \/ (d.day = MaxDay /\ d.hour > NowHour)

\* newDate.setHours(newDate.getHours() + 1)
NextHour(day, h) ==
  IF h + 1 = HoursPerDay THEN [day |-> day + 1, hour |-> 0]
                         ELSE [day |-> day, hour |-> h + 1]

\* a callback of the setInterval of the playback effect, which lives while
\* isTimelinePlaying holds: the updater handed to setCurrentDate
PlaybackTick ==
  /\ isTimelinePlaying
  /\ LET newDate == NextHour(currentDate, hour)
     IN IF AfterNow(newDate)
        THEN /\ isTimelinePlaying' = FALSE
             /\ UNCHANGED <<hour, overlayVars, dataVars, coordVars, airportVars>>
        ELSE /\ hour' = newDate.hour
             /\ UNCHANGED isTimelinePlaying
             /\ Render(activeBasemap, activeWeatherLayers, newDate.day, "playback")

(***************************************************************************)
(* AirportService                                                          *)
(***************************************************************************)
\* what the fetch of /data/airports.json and response.json() may give: the
\* list, the JSON value null, a response that is not ok, a rejected fetch
LoadOutcomes == {"list", "null", "status", "network"}

\* AirportService.getAirports up to its first await, or up to its return
getAirports ==
  /\ Len(calls) < MaxCalls
  /\ UNCHANGED <<airports, overlayVars, dataVars, coordVars, timelineVars>>
  /\ IF airports # "null"
     THEN /\ calls' = Append(calls, [stage |-> "resolved", result |-> "airports"])
          /\ UNCHANGED isLoading
     ELSE IF isLoading
          THEN /\ calls' = Append(calls, [stage |-> "waiting", result |-> "none"])
               /\ UNCHANGED isLoading
          ELSE /\ calls' = Append(calls, [stage |-> "loading", result |-> "none"])
               /\ isLoading' = TRUE

\* AirportService.getAirports from the answer of fetch to its finally block
LoadDone(i, o) ==
  /\ i \in 1..Len(calls)
  /\ calls[i].stage = "loading"
  /\ airports' = IF o \in {"list", "null"} THEN o ELSE airports
  /\ calls' = [calls EXCEPT ![i] = [stage |-> "resolved",
                                    result |-> IF o = "list" THEN "airports" ELSE "empty"]]
  /\ isLoading' = FALSE
  /\ UNCHANGED <<overlayVars, dataVars, coordVars, timelineVars>>

\* a callback of the setInterval of a call that found a load in flight
CheckAirports(i) ==
  /\ i \in 1..Len(calls)
  /\ calls[i].stage = "waiting"
  /\ calls' = IF airports # "null"
              THEN [calls EXCEPT ![i] = [stage |-> "resolved", result |-> "airports"]]
              ELSE calls
  /\ UNCHANGED <<airports, isLoading, overlayVars, dataVars, coordVars, timelineVars>>


\* Index.handleToggle3D: the mounted surface is unmounted (its refs and its
\* pending callbacks die with it: they find map.current / viewer.current
\* null), the other one is mounted and runs its effects
handleToggle3D ==
  /\ UNCHANGED <<timelineVars, airportVars>>
  /\ is3DView' = ~is3DView
  /\ hist' = History("mount")
  /\ UNCHANGED <<activeBasemap, activeWeatherLayers, currentDate>>
  /\ panel' = FreshPanel
  /\ tasks' = [i \in 1..Len(tasks) |-> [tasks[i] EXCEPT !.live = FALSE]]
  /\ UNCHANGED <<clock, env, weatherCache, summaryCache, nextSweep, requests, resolved>>
  /\ camera' = HomeCamera
  /\ measuring' = NoMeasurement
  /\ toast' = IF is3DView THEN "Switching to 2D Map" ELSE "Switching to 3D Globe"
  /\ UNCHANGED zooms
  /\ IF is3DView
     THEN /\ wm' = Mount2D(activeBasemap, activeWeatherLayers, currentDate)
          /\ timers' = <<Timer(activeWeatherLayers, currentDate)>>
          /\ gl' = Fresh3D
          /\ pending3d' = <<>>
     ELSE /\ gl' = Mount3D(activeBasemap, activeWeatherLayers, currentDate)
          /\ pending3d' = IF Awaits(activeBasemap)
                          THEN <<Pass(activeBasemap, activeWeatherLayers, currentDate)>>
                          ELSE <<>>
          /\ wm' = Fresh2D
          /\ timers' = <<>>

\* the oldest pending setTimeout callback of the 2D map-init effect runs
TimerFire ==
  /\ UNCHANGED <<timelineVars, airportVars>>
  /\ timers # <<>>
  /\ wm' = TimerBody(wm, Head(timers))
  /\ timers' = Tail(timers)
  /\ UNCHANGED <<is3DView, activeBasemap, activeWeatherLayers, currentDate,
                 gl, pending3d, hist, dataVars, coordVars>>

\* a suspended addBasemap() of the 3D surface resumes, its providers resolved
\* (ok) or rejected
AddBasemapResume(i, ok) ==
  /\ UNCHANGED <<timelineVars, airportVars>>
  /\ i \in 1..Len(pending3d)
  /\ gl' = addBasemap(gl, pending3d[i], ok)
  /\ pending3d' = RemoveAt(pending3d, i)
  /\ hist' = [hist EXCEPT !.failed = @ \/ ~ok]
  /\ UNCHANGED <<is3DView, activeBasemap, activeWeatherLayers, currentDate,
                 wm, timers, dataVars, coordVars>>

\* the refs Index holds to the surfaces: set while the surface is mounted
mapRef == ~is3DView
globeRef == is3DView

\* Index.handleZoomIn, with zoomIn of the surface it reaches
handleZoomIn ==
  /\ UNCHANGED <<timelineVars, airportVars>>
  /\ zooms < MaxZooms
  /\ zooms' = zooms + 1
  /\ camera' = IF is3DView /\ globeRef
               THEN IF gl.viewer THEN zoomIn(camera, TRUE) ELSE camera
               ELSE IF mapRef
               THEN IF wm.map THEN zoomIn(camera, FALSE) ELSE camera
               ELSE camera
  /\ UNCHANGED <<measuring, toast, overlayVars, dataVars>>

\* Index.handleZoomOut, with zoomOut of the surface it reaches
handleZoomOut ==
  /\ UNCHANGED <<timelineVars, airportVars>>
  /\ zooms < MaxZooms
  /\ zooms' = zooms + 1
  /\ camera' = IF is3DView /\ globeRef
               THEN IF gl.viewer THEN zoomOut(camera, TRUE) ELSE camera
               ELSE IF mapRef
               THEN IF wm.map THEN zoomOut(camera, FALSE) ELSE camera
               ELSE camera
  /\ UNCHANGED <<measuring, toast, overlayVars, dataVars>>

\* the onWorldViewClick handler of Index: flyTo(20, 0, 3) on the surface
onWorldViewClick ==
  /\ UNCHANGED <<timelineVars, airportVars>>
  /\ camera' = IF is3DView /\ globeRef
               THEN IF gl.viewer THEN flyTo(camera, TRUE, 3) ELSE camera
               ELSE IF mapRef
               THEN IF wm.map THEN flyTo(camera, FALSE, 3) ELSE camera
               ELSE camera
  /\ UNCHANGED <<measuring, toast, zooms, overlayVars, dataVars>>

\* Index.handleMeasureClick, with startMeasurement of the 2D surface:
\* cancelMeasurement() and its toast, then measuring mode and its toast
handleMeasureClick ==
  /\ UNCHANGED <<timelineVars, airportVars>>
  /\ IF mapRef
     THEN IF wm.map
          THEN /\ measuring' = [on |-> TRUE, points |-> 0]
               /\ toast' = "Measurement Started"
          ELSE UNCHANGED <<measuring, toast>>
     ELSE /\ toast' = "Map Not Ready"
          /\ UNCHANGED measuring
  /\ UNCHANGED <<camera, zooms, overlayVars, dataVars>>

\* a click on the 2D map in measuring mode: a point is taken, and the second
\* one completes the measurement
MeasureClick ==
  /\ UNCHANGED <<timelineVars, airportVars>>
  /\ ~is3DView /\ wm.map
  /\ measuring.on
  /\ measuring' = [on |-> measuring.points + 1 # 2, points |-> measuring.points + 1]
  /\ toast' = IF measuring.points + 1 = 2 THEN "Measurement Complete" ELSE toast
  /\ UNCHANGED <<camera, zooms, overlayVars, dataVars>>

\* the timeline and the airport service after construction
ServiceInit ==
  /\ isTimelinePlaying = FALSE
  /\ hour = NowHour
  /\ airports = "null"
  /\ isLoading = FALSE
  /\ calls = <<>>

\* the surface controls after construction
CoordInit ==
  /\ camera = HomeCamera
  /\ measuring = NoMeasurement
  /\ toast = ""
  /\ zooms = 0

OverlayInit ==
  /\ is3DView = FALSE
  /\ activeBasemap = "esri"
  /\ activeWeatherLayers = <<"temperature">>
  /\ currentDate = MaxDay
  /\ wm = Mount2D("esri", <<"temperature">>, MaxDay)
  /\ timers = <<Timer(<<"temperature">>, MaxDay)>>
  /\ gl = Fresh3D
  /\ pending3d = <<>>
  /\ hist = [change |-> "mount", prevLayers |-> {}, prevAttached |-> {},
             prevDate |-> MaxDay, prevBasemap |-> "esri",
             settled |-> TRUE, failed |-> FALSE]

ToggleLayer == \E layer \in LayerIds : handleWeatherLayerToggle(layer)
SelectLayer == \E layerId \in SelectorLayers : handleWeatherClick(layerId)
SwitchBasemap == \E b \in Basemaps : onBasemapChange(b)
ChangeDate == \E d \in Days : onDateChange(d)
ResumeAddBasemap == \E i \in 1..MaxPending, ok \in BOOLEAN : AddBasemapResume(i, ok)

OverlayNext ==
  \/ ToggleLayer
  \/ SwitchBasemap
  \/ ChangeDate
  \/ handleToggle3D
  \/ TimerFire
  \/ ResumeAddBasemap

\* the weather data side of the page after construction, given which provider
\* credentials the build was configured with
DataInit(e) ==
  /\ clock = 0
  /\ env = e
  /\ weatherCache = [c \in {"2d", "3d"} |-> EmptyCache]
  /\ summaryCache = EmptyCache
  /\ nextSweep = SweepMs
  /\ panel = FreshPanel
  /\ tasks = <<>>
  /\ requests = 0
  /\ resolved = [text |-> NullText, by |-> "none"]

Envs == [openaiKey : BOOLEAN, hfToken : BOOLEAN]

Request == \E path \in Paths, c \in Coords : StartRequest(path, c)
CompleteFetch == \E i \in 1..MaxRequests, o \in FetchOutcomes : FetchDone(i, o)
CompleteOpenAI == \E i \in 1..MaxRequests, o \in OpenAIOutcomes : OpenAIDone(i, o)
CompleteHF == \E i \in 1..MaxRequests, o \in HFOutcomes : HFDone(i, o)

CompleteLoad == \E i \in 1..MaxCalls, o \in LoadOutcomes : LoadDone(i, o)
PollAirports == \E i \in 1..MaxCalls : CheckAirports(i)

Init == OverlayInit /\ CoordInit /\ ServiceInit /\ \E e \in Envs : DataInit(e)
Next ==
  \/ OverlayNext
  \/ SelectLayer
  \/ handleZoomIn
  \/ handleZoomOut
  \/ onWorldViewClick
  \/ handleMeasureClick
  \/ MeasureClick
  \/ Request
  \/ CompleteFetch
  \/ CompleteOpenAI
  \/ CompleteHF
  \/ Sweep
  \/ Tick
  \/ onPlayToggle
  \/ PlaybackTick
  \/ getAirports
  \/ CompleteLoad
  \/ PollAirports
Spec == Init /\ [][Next]_vars

\* the overlay side alone: layer, date and basemap changes and surface toggles
InitOverlay == OverlayInit /\ CoordInit /\ ServiceInit /\ DataInit([openaiKey |-> FALSE, hfToken |-> FALSE])
SpecOverlay == InitOverlay /\ [][OverlayNext]_vars

\* the page as the user drives it: layers are chosen in the layer selector
SelectorSteps ==
  \/ SelectLayer
  \/ SwitchBasemap
  \/ ChangeDate
  \/ handleToggle3D
  \/ TimerFire
  \/ ResumeAddBasemap
SpecSelector == InitOverlay /\ [][SelectorSteps]_vars

\* the airport service: calls, the answer of the load and the polls of the
\* waiting calls; an answer arrives and interval callbacks keep firing
AirportSteps ==
  \/ getAirports
  \/ CompleteLoad
  \/ PollAirports
SpecAirports ==
  /\ InitOverlay
  /\ [][AirportSteps]_vars
  /\ WF_vars(CompleteLoad)
  /\ \A i \in 1..MaxCalls : WF_vars(CheckAirports(i))

\* timeline playback: the user moves the slider, starts and stops playback
\* and toggles the view; the interval callback fires again and again while
\* playback is on, and pending timer and basemap callbacks complete
PlaybackSteps ==
  \/ onPlayToggle
  \/ PlaybackTick
  \/ ChangeDate
  \/ handleToggle3D
  \/ TimerFire
  \/ ResumeAddBasemap
SpecPlayback ==
  /\ InitOverlay
  /\ [][PlaybackSteps]_vars
  /\ SF_vars(PlaybackTick)
  /\ WF_vars(TimerFire)
  /\ WF_vars(ResumeAddBasemap)

\* the clock standing still
PanelSteps ==
  \/ Request
  \/ CompleteFetch
  \/ CompleteOpenAI
  \/ CompleteHF
  \/ handleToggle3D
SpecPanel == Init /\ [][PanelSteps]_vars

\* the caches: requests and their completions on one surface as time passes
CacheSteps ==
  \/ Request
  \/ CompleteFetch
  \/ CompleteOpenAI
  \/ CompleteHF
  \/ Tick
  \/ Sweep
SpecCache == Init /\ [][CacheSteps]_vars

\* the coordinator: the commands of the page on the mounted surface, surface
\* toggles and the 2D surface becoming ready
CoordSteps ==
  \/ handleZoomIn
  \/ handleZoomOut
  \/ onWorldViewClick
  \/ handleMeasureClick
  \/ MeasureClick
  \/ Request
  \/ handleToggle3D
  \/ TimerFire
SpecCoord == InitOverlay /\ [][CoordSteps]_vars

(***************************************************************************)
(* Overlay reconciliation: claims                                          *)
(***************************************************************************)
\* no reconciliation pass of the mounted surface is still pending, none was
\* pending when the last props change came, and no provider request failed
Quiescent == timers = <<>> /\ pending3d = <<>> /\ ~hist.failed
Settled == Quiescent /\ hist.settled

\* the tile source the mounted surface knows for a layer id
SourceOf(id) ==
  IF is3DView THEN getWeatherTileUrl(id, currentDate) ELSE getTileUrl(id, currentDate)

DesiredKnown == {id \in Range(activeWeatherLayers) : SourceOf(id) # NoTile}

\* attach / detach calls per layer id since the last props change
Attaches(id) == IF is3DView THEN gl.att[id] ELSE wm.att[id]
Detaches(id) == IF is3DView THEN gl.det[id] ELSE wm.det[id]

\* the basemap imagery on the mounted surface
AttachedBase ==
  IF is3DView
  THEN {x \in Range(gl.imageryLayers) : x.kind = "base"}
  ELSE {x \in wm.mapLayers : x.kind = "base"}

\* C2: once every reconciliation pass of the mounted surface has completed,
\* the overlay ids attached to it are exactly the desired ids that have a
\* known source.
C2_AttachedEqualsDesired == Quiescent => AttachedIds = DesiredKnown

\* a pending 2D timer / 3D pass whose captured props are no longer the props
OutdatedTimer(t) == t.layers # activeWeatherLayers \/ t.dateStr # currentDate
OutdatedPass(p) ==
  p.layers # activeWeatherLayers \/ p.dateStr # currentDate \/ p.basemap # activeBasemap

\* C7: a reconciliation pass that has been superseded (its desired set,
\* reference date or basemap is outdated when it resumes) attaches nothing.
C7_SupersededPassAttachesNothing ==
  [][/\ (TimerFire /\ OutdatedTimer(Head(timers))) => wm'.mapLayers = wm.mapLayers
     /\ \A i \in 1..Len(pending3d) :
          (AddBasemapResume(i, TRUE) /\ OutdatedPass(pending3d[i]))
            => gl'.imageryLayers = gl.imageryLayers]_vars

\* C8: after a change of the reference date alone, every overlay that was
\* attached has been detached and attached exactly once if it is
\* date-sensitive, and not at all if it is static.
C8_DateSensitivity ==
  (Settled /\ hist.change = "date" /\ hist.prevDate # currentDate) =>
    \A id \in hist.prevAttached :
      IF SourceOf(id).source = "gibs"
      THEN Attaches(id) = 1 /\ Detaches(id) = 1
      ELSE Attaches(id) = 0 /\ Detaches(id) = 0

\* C9: after a basemap change and the completed rebuild, the imagery of the
\* new basemap (and of no other) and every desired overlay with a known
\* source are attached.
C9_BasemapRebuild ==
  (Settled /\ hist.change = "basemap") =>
    /\ AttachedBase = BasemapLayers(activeBasemap, currentDate)
    /\ DesiredKnown \subseteq AttachedIds

\* C10: going from desired set S1 to S2 detaches exactly the attached ids of
\* S1 \ S2, attaches exactly the known ids of S2 \ S1 and touches nothing
\* else; reconciling again with the same desired set and date does nothing.
C10_MinimalOperations ==
  /\ (Settled /\ hist.change = "layers") =>
       \A id \in LayerIds :
         /\ Detaches(id) =
              IF id \in hist.prevAttached \ Range(activeWeatherLayers) THEN 1 ELSE 0
         /\ Attaches(id) =
              IF id \in DesiredKnown \ hist.prevLayers THEN 1 ELSE 0
  /\ (Settled /\ hist.change = "date" /\ hist.prevDate = currentDate) =>
       \A id \in LayerIds : Attaches(id) = 0 /\ Detaches(id) = 0

(***************************************************************************)
(* Weather panel and caches: claims                                        *)
(***************************************************************************)
\* invocation i returns or moves on: one of its requests has completed
Completes(i) ==
  \/ \E o \in FetchOutcomes : FetchDone(i, o)
  \/ \E o \in OpenAIOutcomes : OpenAIDone(i, o)
  \/ \E o \in HFOutcomes : HFDone(i, o)

\* the result of the latest request of the mounted surface has arrived
LatestArrived == \A j \in 1..Len(tasks) : tasks[j].live => tasks[j].superseded

\* C1: last request wins. A result of a superseded request that arrives after
\* the result of the latest request is discarded: it changes neither the
\* displayed payload nor the displayed error nor the displayed summary.
C1_LastRequestWins ==
  [][\A i \in 1..MaxRequests :
       (Completes(i) /\ tasks[i].live /\ tasks[i].superseded /\ LatestArrived)
         => /\ panel'.weatherPayload = panel.weatherPayload
            /\ panel'.weatherError = panel.weatherError
            /\ panel'.weatherSummary = panel.weatherSummary]_vars

\* the times a cache may be asked at
QueryTimes == {k * TickMs : k \in 0..(MaxTicks + 2)}

\* the summary cache would answer a lookup of key k at time now
SummaryValid(cache, k, now) == k \in DOMAIN cache /\ now - cache[k].timestamp < CACHE_TTL

\* C3: cache correctness in both namespaces. An entry written at time t is
\* returned by every lookup of its key at a time in [t, t + TTL) and by no
\* lookup at a time >= t + TTL (TTL 5 minutes for weather payloads, 10 minutes
\* for summaries), and the sweep removes no entry that is still valid.
C3_CacheCorrectness ==
  [][/\ \A i \in 1..MaxRequests, o \in FetchOutcomes :
          (FetchDone(i, o) /\ FetchError(o) = NoError) =>
            \A q \in QueryTimes : q >= clock =>
              (WeatherHit(weatherCache'[tasks[i].cache], CacheKeyOf(tasks[i].coord), q)
                 <=> q - clock < CACHE_TTL_MS)
     /\ \A k \in DOMAIN summaryCache' :
          (k \notin DOMAIN summaryCache \/ summaryCache'[k] # summaryCache[k]) =>
            \A q \in QueryTimes : q >= clock =>
              (SummaryValid(summaryCache', k, q) <=> q - clock < CACHE_TTL)
     /\ \A k \in DOMAIN summaryCache :
          k \notin DOMAIN summaryCache' => ~SummaryValid(summaryCache, k, clock)]_vars

\* one of the three requests of outcome o failed
Failed(o) == ~o.net \/ o.cur # "ok" \/ o.fore # "ok" \/ o.air # "ok"

\* what every completion of the fetch of invocation i does: the invocation
\* returns or moves on to its summary, and no request starts
Fetched(i) ==
  /\ tasks[i].stage = "fetch"
  /\ requests' = requests
  /\ Len(tasks') < Len(tasks) \/ tasks'[i].stage # "fetch"

\* C4: all-or-nothing fetch. When any of the three requests of a fetch fails,
\* by network error or by non-success status, the fetch returns no payload,
\* reports an error and leaves the weather cache as it was, and the panel of
\* the surface that asked (if it is still mounted) holds an error.
C4_AllOrNothing ==
  [][\A i \in 1..Len(tasks) : Fetched(i) => \A o \in FetchOutcomes : Failed(o) =>
       LET t == tasks[i]
           r == FetchResult(weatherCache[t.cache], CacheKeyOf(t.coord), t.now, t.coord, o)
       IN \/ /\ r.payload = NoPayload
             /\ r.error # NoError
             /\ weatherCache' = weatherCache
             /\ t.live => panel'.weatherError # NoError
          \/ ~FetchDone(i, o)]_vars

\* a fetch whose current conditions arrived and whose forecast request failed
\* has returned: the panel reports it and the cache of the surface is empty
C4_Witness ==
  /\ panel.weatherError = "OpenWeather forecast error 401"
  /\ panel.weatherPayload = NoPayload
  /\ tasks = <<>>
  /\ weatherCache[CacheOf(is3DView)] = EmptyCache

\* C5: generateWeatherSummary never raises and always returns a non-empty
\* string, whatever the network-backed providers do.
C5_SummaryNonEmpty ==
  resolved.by # "none" => (resolved.text # NullText /\ resolved.text # <<>>)

\* C6: a surface toggle does not drop a weather request in flight. The result
\* of a fetch that was in progress when the surface was switched (and that no
\* newer request has superseded) shows in the panel: its payload, or an error.
C6_ToggleKeepsRequest ==
  [][\A i \in 1..MaxRequests, o \in FetchOutcomes :
       (FetchDone(i, o) /\ ~tasks[i].live /\ ~tasks[i].superseded) =>
         IF Failed(o)
         THEN panel'.weatherError # NoError
         ELSE panel'.weatherPayload = Payload(tasks[i].coord)]_vars

\* C11: once a fetch for a coordinate has succeeded, a second fetch within the
\* TTL for any raw coordinate with the same 4-decimal key returns the cached
\* payload and sends no request: from the moment the fetch completes and for
\* the next 5 minutes the lookup of that key is a hit on the stored payload.
C11_SameKeyHit ==
  [][\A i \in 1..Len(tasks) : Fetched(i) => \A o \in FetchOutcomes :
       (~Failed(o) /\ FetchDone(i, o)) =>
         \A c \in Coords : CacheKeyOf(c) = CacheKeyOf(tasks[i].coord) =>
           \A q \in QueryTimes : (q >= clock /\ q - clock < CACHE_TTL_MS) =>
             /\ WeatherHit(weatherCache'[tasks[i].cache], CacheKeyOf(c), q)
             /\ weatherCache'[tasks[i].cache][CacheKeyOf(c)].payload
                  = Payload(tasks[i].coord)]_vars

\* the other surface's cache
OtherCache(n) == IF n = "2d" THEN "3d" ELSE "2d"

\* C12: the weather cache is one namespace shared by both surfaces. A request
\* started on one surface for a key that a fetch from the other surface has
\* stored within the TTL is answered from the cache: no fetch is started and
\* the panel shows the stored payload.
C12_SharedWeatherCache ==
  [][\A path \in Paths, c \in Coords :
       LET other == weatherCache[OtherCache(CacheOf(is3DView))]
       IN (WeatherHit(other, CacheKeyOf(c), clock) /\ StartRequest(path, c)) =>
            /\ \A j \in 1..Len(tasks') : tasks'[j].stage = "fetch" => j <= Len(tasks)
            /\ panel'.weatherPayload = other[CacheKeyOf(c)].payload]_vars

\* the summary cache has a new or a replaced entry under key k
Written(k) ==
  k \in DOMAIN summaryCache' /\ (k \notin DOMAIN summaryCache \/ summaryCache'[k] # summaryCache[k])

\* C13: summary cache reuse. Once generateWeatherSummary has returned a text for
\* a payload, a later call within 10 minutes for any payload with the same
\* location name, temperature and condition text, whatever its coordinate,
\* returns that text from the cache without invoking a provider; the sweep
\* removes no entry that is still within the TTL.
C13_SummaryReuse ==
  [][/\ \A c \in Coords :
          Written(SummaryKey(SummaryInput(Payload(c)))) =>
            \A q \in QueryTimes : (q >= clock /\ q - clock < CACHE_TTL) =>
              LET r == ResolveStart(summaryCache', SummaryInput(Payload(c)), q, env)
              IN r.done /\ r.by = "cache" /\ r.text = resolved'.text
     /\ \A k \in DOMAIN summaryCache :
          k \notin DOMAIN summaryCache' => clock - summaryCache[k].timestamp >= CACHE_TTL]_vars

\* a summary stored at time 0 has been reused for a payload that was fetched
\* 5 minutes later for the second London coordinate
C13_Witness ==
  /\ resolved.by = "cache"
  /\ clock = TickMs
  /\ tasks = <<>>
  /\ panel.weatherPayload = Payload(<<5150074, 0 - 12458>>)
  /\ panel.weatherSummary = resolved.text
  /\ SummaryKey(SummaryInput(panel.weatherPayload)) \in DOMAIN summaryCache
  /\ summaryCache[SummaryKey(SummaryInput(panel.weatherPayload))].timestamp = 0
  /\ weatherCache["2d"][CacheKeyOf(panel.weatherPayload.at)].timestamp = TickMs

\* Math.round of a temperature given in tenths of a degree
Round(x) == (x + 5) \div 10

\* C14: the summary cache key uses the rounded temperature. Once a summary is
\* stored for a payload, a call for a payload with the same location name and
\* condition text whose temperature rounds to the same value is answered from
\* the cache.
C14_RoundedTemperatureKey ==
  [][\A c \in Coords :
       LET input == SummaryInput(Payload(c))
       IN Written(SummaryKey(input)) =>
            \A temp \in (input.temp - MaxDrift)..(input.temp + MaxDrift) :
              Round(temp) = Round(input.temp) =>
                ResolveStart(summaryCache', [input EXCEPT !.temp = temp], clock, env).by
                  = "cache"]_vars

\* invocation i has returned in this step
Gone(i) == Len(tasks') < Len(tasks)

\* C15: on a summary cache miss the providers are invoked in the order OpenAI,
\* Hugging Face, local fallback. A provider is invoked only if every provider
\* before it failed in this call (a provider without credentials fails at
\* once), and none is invoked after the first one that succeeds.
C15_ProviderOrder ==
  [][/\ \A i \in 1..Len(tasks) :
          /\ tasks[i].stage = "openai" => \A o \in OpenAIOutcomes :
               \/ IF o.ok THEN Gone(i) /\ resolved'.by = "openai"
                  ELSE IF env.hfToken
                  THEN Len(tasks') = Len(tasks) /\ tasks'[i].stage = "hf"
                  ELSE Gone(i) /\ resolved'.by = "fallback"
               \/ ~OpenAIDone(i, o)
          /\ tasks[i].stage = "hf" => \A o \in HFOutcomes :
               \/ /\ Gone(i)
                  /\ resolved'.by = IF o.ok /\ o.text # <<>> THEN "hf" ELSE "fallback"
               \/ ~HFDone(i, o)
     /\ \A j \in 1..Len(tasks') :
          (/\ Len(tasks') >= Len(tasks)
           /\ j > Len(tasks) \/ tasks[j].stage = "fetch"
           /\ tasks'[j].stage = "hf") => ~env.openaiKey
     /\ (/\ resolved' # resolved
         /\ resolved'.by = "fallback"
         /\ \A i \in 1..Len(tasks) : tasks[i].stage = "fetch")
          => (~env.openaiKey /\ ~env.hfToken)]_vars

\* with both credentials configured a call has ended with the fallback text:
\* OpenAI was invoked and failed, then Hugging Face was invoked and failed
C15_Witness ==
  env.openaiKey /\ env.hfToken /\ resolved.by = "fallback" /\ tasks = <<>>

\* C20: a provider whose API key is absent is skipped without a network call
\* and without an error, and the resolve goes on to the next provider: no
\* request to OpenAI is in flight without its key, none to Hugging Face
\* without its token, and with both absent every summary returned is the
\* local provider's text for some payload.
C20_AbsentKeySkipped ==
  /\ \A i \in 1..Len(tasks) :
       /\ tasks[i].stage = "openai" => env.openaiKey
       /\ tasks[i].stage = "hf" => env.hfToken
  /\ (~env.openaiKey /\ ~env.hfToken /\ resolved.by # "none") =>
       /\ resolved.by \in {"fallback", "cache"}
       /\ \E c \in Coords : resolved.text = FallbackSummary(SummaryInput(Payload(c)))

\* with neither credential configured a displayed request has been answered
\* by the local provider
C20_Witness ==
  /\ ~env.openaiKey /\ ~env.hfToken
  /\ resolved.by = "fallback"
  /\ panel.weatherPayload # NoPayload
  /\ panel.weatherSummary = FallbackSummary(SummaryInput(panel.weatherPayload))
  /\ panel.weatherError = NoError

\* C17: when a provider answers with a non-success HTTP status, the error the
\* panel shows is the provider's message if the response carries one, else
\* the generic status-coded message, on every request path (click, search,
\* locate) of both surfaces.
C17_ProviderMessageShown ==
  [][\A i \in 1..Len(tasks) : (Fetched(i) /\ tasks[i].live) =>
       \A o \in FetchOutcomes : (o.net /\ Failed(o)) =>
         \/ panel'.weatherError = FetchError(o)
         \/ ~FetchDone(i, o)]_vars

\* C18: in both cache namespaces an entry whose age has reached the TTL does
\* not stay for ever: a stale lookup or the periodic sweep deletes it, and
\* after a sweep no entry older than the TTL of its namespace remains.
C18_SweepEvicts ==
  [][Sweep =>
       /\ \A k \in DOMAIN summaryCache' :
            clock' - summaryCache'[k].timestamp <= CACHE_TTL
       /\ \A n \in DOMAIN weatherCache' : \A k \in DOMAIN weatherCache'[n] :
            clock' - weatherCache'[n][k].timestamp <= CACHE_TTL_MS]_vars

\* the desired ids the mounted surface has no source for
DesiredUnknown == {id \in Range(activeWeatherLayers) : SourceOf(id) = NoTile}

NotReady == IF is3DView THEN ~gl.viewer ELSE ~(wm.map /\ wm.mapReady)

\* a step that performs no operation on the surface
Untouched ==
  /\ camera' = camera
  /\ measuring' = measuring
  /\ panel' = panel
  /\ tasks' = tasks
  /\ weatherCache' = weatherCache

\* C16: every coordinator command (world view, zoom in, zoom out, locate user,
\* search and show weather, start measurement) issued while the selected
\* surface is not mounted or not ready performs no surface operation and
\* gives an explicit not-ready signal; none is silently dropped.
C16_NotReadyCommands ==
  [][(/\ NotReady
      /\ \/ handleZoomIn
         \/ handleZoomOut
         \/ onWorldViewClick
         \/ handleMeasureClick
         \/ \E c \in Coords : StartRequest("search", c)
         \/ \E c \in Coords : StartRequest("locate", c))
       => (Untouched /\ toast' = "Map Not Ready")]_vars

\* C21: within one reconciliation pass all detachments are performed before
\* any attachment: no pass of either surface detaches an imagery source after
\* it has attached one.
C21_DetachBeforeAttach == wm.order # "mixed" /\ gl.order # "mixed"

\* a pass of the globe has detached the old imagery and then attached the
\* basemap and an overlay
C21_Witness ==
  /\ is3DView /\ gl.order = "detatt"
  /\ AttachedIds # {}
  /\ \E id \in LayerIds : gl.det[id] > 0

\* C22: when a network-backed summary provider fails (missing credentials,
\* network failure, malformed or empty response), resolve continues with the
\* next provider: an empty or blank answer of OpenAI hands over to Hugging
\* Face (to the fallback without a token), one of Hugging Face to the
\* fallback, and the answer is not cached or returned as the summary.
C22_EmptyAnswerRejected ==
  [][\A i \in 1..Len(tasks) :
       /\ tasks[i].stage = "openai" => \A o \in OpenAIOutcomes :
            (o.ok /\ Trim(o.content) = <<>>) =>
              \/ IF env.hfToken
                 THEN Len(tasks') = Len(tasks) /\ tasks'[i].stage = "hf"
                 ELSE Gone(i) /\ resolved'.by = "fallback"
              \/ ~OpenAIDone(i, o)
       /\ tasks[i].stage = "hf" => \A o \in HFOutcomes :
            (o.ok /\ Trim(o.text) = <<>>) =>
              \/ /\ Gone(i)
                 /\ resolved'.by = "fallback"
                 /\ Trim(summaryCache'[SummaryKey(SummaryInput(tasks[i].payload))].summary) # <<>>
              \/ ~HFDone(i, o)]_vars

\* C23: a weather cache entry is stamped with the time at which it is written,
\* so the timestamp stored for a key never decreases from one write to the
\* next, also when two fetches of the same key overlap and complete in either
\* order.
C23_TimestampMonotonic ==
  [][\A n \in DOMAIN weatherCache : \A k \in DOMAIN weatherCache'[n] :
       /\ (k \notin DOMAIN weatherCache[n] \/ weatherCache'[n][k] # weatherCache[n][k])
            => weatherCache'[n][k].timestamp = clock
       /\ k \in DOMAIN weatherCache[n]
            => weatherCache'[n][k].timestamp >= weatherCache[n][k].timestamp]_vars

\* the overlay ids on a 2D map mounted with the given props, once its timer
\* has run, and on a globe mounted with them, once addBasemap has finished
Overlays2D(basemap, layers, dateStr) ==
  {l.id : l \in {x \in TimerBody(Mount2D(basemap, layers, dateStr),
                                 Timer(layers, dateStr)).mapLayers : x.kind = "overlay"}}
Overlays3D(basemap, layers, dateStr) ==
  LET g == Mount3D(basemap, layers, dateStr)
      done == IF Awaits(basemap) THEN addBasemap(g, Pass(basemap, layers, dateStr), TRUE) ELSE g
  IN {l.id : l \in {x \in Range(done.imageryLayers) : x.kind = "overlay"}}

ShowsPayload ==
  ~panel.weatherLoading /\ panel.weatherError = NoError /\ panel.weatherPayload # NoPayload
ShowsSummary ==
  ShowsPayload /\ ~panel.summaryLoading /\ panel.weatherSummary \notin {NullText, <<>>}

\* the texts generateWeatherSummary can return for a payload
SummariesOf(payload) ==
  {FallbackSummary(SummaryInput(payload))}
    \cup {IF o.content # <<>> THEN o.content ELSE <<"Weather summary unavailable.">> :
            o \in {x \in OpenAIOutcomes : x.ok}}
    \cup {Trim(o.text) : o \in {x \in HFOutcomes : x.ok /\ x.text # <<>>}}

\* C25: whenever the weather panel shows a payload together with a summary,
\* that summary was generated from that same payload, on every request path
\* and for every completion order.
C25_SummaryMatchesPayload ==
  ShowsSummary => panel.weatherSummary \in SummariesOf(panel.weatherPayload)

\* a request started after invocation i on the mounted surface is still
\* waiting for its responses
LaterOutstanding(i) ==
  \E j \in (i + 1)..Len(tasks) : tasks[j].stage = "fetch" /\ tasks[j].live

\* C27: the loading indicator stays on while the request whose result will be
\* displayed is in flight: the completion, by success or failure, of one
\* request never switches weatherLoading off while a request started later on
\* the same surface is still outstanding.
C27_LoadingWhileOutstanding ==
  [][\A i \in 1..Len(tasks) :
       (Fetched(i) /\ tasks[i].live /\ panel.weatherLoading /\ LaterOutstanding(i)) =>
         \A o \in FetchOutcomes :
           \/ panel'.weatherLoading
           \/ ~FetchDone(i, o)]_vars

\* the responses of an outcome that have a non-success status
NonSuccess(o) ==
  {w \in {"current", "forecast", "air"} :
     o.net /\ (IF w = "current" THEN o.cur ELSE IF w = "forecast" THEN o.fore ELSE o.air) # "ok"}

\* the message of one failed response: the provider's, or the status-coded one
MessageOf(w, how) ==
  IF how = "msg" THEN "provider message (" \o w \o ")"
  ELSE IF w = "air" THEN "OpenWeather AQI error 401"
  ELSE "OpenWeather " \o w \o " error 401"

\* C28: when more than one of the three responses of a fetch has a
\* non-success status the reported failure is deterministic: the failure of
\* the current conditions takes precedence over that of the forecast, which
\* takes precedence over that of the air quality. The failure is the one
\* fetchWeather reports, and the one the panel shows on the paths that keep
\* the message of fetchWeather.
C28_FailurePrecedence ==
  [][\A i \in 1..Len(tasks) : Fetched(i) =>
       \A o \in FetchOutcomes : Cardinality(NonSuccess(o)) > 1 =>
         LET t == tasks[i]
             r == FetchResult(weatherCache[t.cache], CacheKeyOf(t.coord), t.now, t.coord, o)
             expected == IF "current" \in NonSuccess(o) THEN MessageOf("current", o.cur)
                         ELSE MessageOf("forecast", o.fore)
         IN \/ /\ r.error = expected
               /\ (t.live /\ NullMessage(t.kind) = NoError) => panel'.weatherError = expected
            \/ ~FetchDone(i, o)]_vars

\* a search whose forecast and air-quality responses were both rejected by the
\* provider has returned: the panel shows the forecast failure
C28_Witness ==
  /\ panel.weatherError = "provider message (forecast)"
  /\ panel.weatherPayload = NoPayload
  /\ ~panel.weatherLoading
  /\ tasks = <<>>
  /\ requests > 0

Resolved(i) == i <= Len(calls) /\ calls[i].stage = "resolved"
C26_EveryCallResolves ==
  \A i \in 1..MaxCalls : [](i <= Len(calls) => <>Resolved(i))

\* C29: timeline playback never moves the reference date past now and stops
\* by itself: a tick advances the date by one hour unless that would be later
\* than now, and then leaves the date and switches playing off; currentDate
\* <= now always holds, and playing is switched off again and again unless
\* the user keeps moving the slider for ever.
C29_PlaybackStops ==
  /\ [](~AfterNow([day |-> currentDate, hour |-> hour]))
  /\ [][PlaybackTick =>
         LET newDate == NextHour(currentDate, hour)
         IN IF newDate.day > MaxDay \/ (newDate.day = MaxDay /\ newDate.hour > NowHour)
            THEN currentDate' = currentDate /\ hour' = hour /\ ~isTimelinePlaying'
            ELSE currentDate' = newDate.day /\ hour' = newDate.hour /\ isTimelinePlaying']_vars
  /\ ([]<>(~isTimelinePlaying) \/ []<><<ChangeDate>>_vars)
C29_Witness ==
  /\ ~isTimelinePlaying
  /\ hist.change = "playback"
  /\ currentDate = MaxDay
  /\ hour = NowHour
====
